---- MODULE Spec2Model ----
(***************************************************************************)
(* Model of package notify (src/notification.go): a client of the          *)
(* org.freedesktop.Notifications D-Bus interface.  The four operations of  *)
(* the Notifier interface are modelled as one atomic action each; the      *)
(* remote notification server and the godbus transport are the             *)
(* environment, whose replies are drawn from bounded sets.                 *)
(*                                                                         *)
(* 32- and 64-bit integers do not fit the model checker's integers, so a   *)
(* uint32 is kept as two 16-bit limbs [hi, lo] and a Go int as a sign and  *)
(* a magnitude of four 16-bit limbs (least significant first).             *)
(***************************************************************************)
EXTENDS Integers, Sequences, FiniteSets, TLC

\* ------------------------------------------------------------------ bounds
\* number of fresh ids the remote double hands out before it stops allocating
MaxIds == 2

\* ------------------------------------------------------- integer encoding
Limb == 2^16
LimbMax == Limb - 1

\* a uint32 as two 16-bit limbs
U32(hi, lo) == [hi |-> hi, lo |-> lo]
U32Zero == U32(0, 0)
\* the uint32 of a small natural number
U32Of(k) == U32(k \div Limb, k % Limb)

\* a Go int (64-bit) as a mathematical integer: sign and magnitude, the
\* magnitude as four limbs, least significant first
GoInt(neg, mag) == [neg |-> neg, mag |-> mag]
IntOf(k) == GoInt(k < 0, <<(IF k < 0 THEN -k ELSE k) % Limb, (IF k < 0 THEN -k ELSE k) \div Limb, 0, 0>>)

\* the 64-bit two's complement bit pattern of a Go int, as four limbs:
\* a negative value is the complement of its magnitude plus one
TwosComplement(x) ==
  IF ~x.neg THEN x.mag
  ELSE LET inv == [i \in 1..4 |-> LimbMax - x.mag[i]]
           c1 == (inv[1] + 1) \div Limb
           c2 == (inv[2] + c1) \div Limb
           c3 == (inv[3] + c2) \div Limb
       IN  <<(inv[1] + 1) % Limb, (inv[2] + c1) % Limb,
             (inv[3] + c2) % Limb, (inv[4] + c3) % Limb>>

\* a mutation: a value outside the uint32 range is clamped to its nearer end
Uint32Saturating(x) ==
  IF x.neg THEN U32(0, 0)
  ELSE IF x.mag[3] # 0 \/ x.mag[4] # 0 THEN U32(LimbMax, LimbMax)
  ELSE U32(x.mag[2], x.mag[1])

\* the conversion uint32(id): the value is sign extended and truncated to
\* the low 32 bits
Uint32(x) == LET b == TwosComplement(x) IN U32(b[2], b[1])

\* the mathematical integer a uint32 denotes
IntOfU32(u) == GoInt(FALSE, <<u.lo, u.hi, 0, 0>>)

\* ------------------------------------------------------------ D-Bus values
\* a value on the wire: a type signature and the payload of that type
\* (the fields of the other types are left at their zero values)
NoHints == {}
Value(t, u, s, as, h, i) == [t |-> t, u |-> u, s |-> s, as |-> as, h |-> h, i |-> i]
UVal(u) == Value("u", u, "", <<>>, NoHints, 0)
SVal(s) == Value("s", U32Zero, s, <<>>, NoHints, 0)
ASVal(as) == Value("as", U32Zero, "", as, NoHints, 0)
DictVal(h) == Value("a{sv}", U32Zero, "", <<>>, h, 0)
IVal(i) == Value("i", U32Zero, "", <<>>, NoHints, i)

\* the error values: nil, the faults of the call, the faults of Store
Nil == "nil"
ErrTransport == "dbus: connection closed by user"
ErrRemote == "org.freedesktop.DBus.Error.Failed"
ErrLength == "dbus.Store: length mismatch"
ErrType == "dbus.Store: type mismatch"
CallFaults == {ErrTransport, ErrRemote}

\* ------------------------------------------------------- method constants
objectPath == "/org/freedesktop/Notifications"
dbusNotificationsInterface == "org.freedesktop.Notifications"
getCapabilities == "org.freedesktop.Notifications.GetCapabilities"
closeNotification == "org.freedesktop.Notifications.CloseNotification"
notify == "org.freedesktop.Notifications.Notify"
getServerInformation == "org.freedesktop.Notifications.GetServerInformation"

\* ------------------------------------------------------------ data model
\* type Notification
Notification(AppName, ReplacesID, AppIcon, Summary, Body, Actions, Hints, ExpireTimeout) ==
  [AppName |-> AppName, ReplacesID |-> ReplacesID, AppIcon |-> AppIcon,
   Summary |-> Summary, Body |-> Body, Actions |-> Actions, Hints |-> Hints,
   ExpireTimeout |-> ExpireTimeout]

\* type ServerInformation; ServerInformation{} is the record of empty strings
ServerInformation(Name, Vendor, Version, SpecVersion) ==
  [Name |-> Name, Vendor |-> Vendor, Version |-> Version, SpecVersion |-> SpecVersion]
NoInformation == ServerInformation("", "", "", "")

\* type notifier and its constructor
New(conn) == [conn |-> conn]

\* ------------------------------------------------- the remote double (env)
\* The double keeps the id it allocates next, the ids it has allocated and
\* the ids on screen; a replace of an id it never allocated is echoed back
\* and shows nothing.
\* A mode says how it answers one call: "honest" follows the notification
\* specification, "fault" makes the call fail with mode.err, "body" replies
\* with the scripted body mode.body whatever was asked.
Mode(kind, err, body) == [kind |-> kind, err |-> err, body |-> body]
Honest == Mode("honest", Nil, <<>>)
Fault(e) == Mode("fault", e, <<>>)
Scripted(b) == Mode("body", Nil, b)

ServerCaps == <<"actions", "body">>
ServerInfo == <<"Notifier", "Acme", "1.2", "1.2">>

\* Notify as the notification specification has it: replaces_id 0 gets a
\* fresh id greater than zero, any other replaces_id is echoed back
NotifyReturn(srv, replaces) ==
  IF replaces = U32Zero THEN U32Of(srv.next) ELSE replaces

ServerNotify(srv, msg) ==
  LET id == NotifyReturn(srv, msg.args[2].u)
  IN  [body |-> <<UVal(id)>>,
       srv |-> [next |-> IF msg.args[2].u = U32Zero THEN srv.next + 1 ELSE srv.next,
                live |-> IF msg.args[2].u = U32Zero \/ id \in srv.issuedIds
                         THEN srv.live \cup {id} ELSE srv.live,
                issuedIds |-> srv.issuedIds \cup
                              (IF msg.args[2].u = U32Zero THEN {id} ELSE {})]]

\* CloseNotification: the notification leaves the screen; a close of an id
\* that is not there is answered with an empty reply all the same
ServerClose(srv, msg) ==
  [body |-> <<>>, srv |-> [srv EXCEPT !.live = @ \ {msg.args[1].u}]]

ServerHonest(srv, msg) ==
  CASE msg.method = notify -> ServerNotify(srv, msg)
    [] msg.method = closeNotification -> ServerClose(srv, msg)
    [] msg.method = getCapabilities -> [body |-> <<ASVal(ServerCaps)>>, srv |-> srv]
    [] msg.method = getServerInformation ->
         [body |-> [i \in 1..4 |-> SVal(ServerInfo[i])], srv |-> srv]
    [] OTHER -> [body |-> <<>>, srv |-> srv]

\* the double can follow the specification for this message: it hands out
\* at most MaxIds fresh ids
CanHonest(srv, msg) ==
  (msg.method = notify /\ msg.args[2].u = U32Zero) => srv.next <= MaxIds

\* one round trip: the reply (Err, Body) and the double afterwards
Respond(srv, msg, mode) ==
  CASE mode.kind = "fault" -> [Err |-> mode.err, Body |-> <<>>, srv |-> srv]
    [] mode.kind = "body" -> [Err |-> Nil, Body |-> mode.body, srv |-> srv]
    [] OTHER -> LET r == ServerHonest(srv, msg)
                IN  [Err |-> Nil, Body |-> r.body, srv |-> r.srv]

\* ------------------------------------------------------- godbus, as used
\* conn.Object(dest, path): never nil
ConnObject(conn, dest, path) == [conn |-> conn, dest |-> dest, path |-> path]

\* obj.Call(method, flags, args...): the message sent and the call that
\* comes back, blocking
ObjCall(obj, method, flags, args, srv, mode) ==
  LET msg == [conn |-> obj.conn, dest |-> obj.dest, path |-> obj.path,
              method |-> method, flags |-> flags, args |-> args]
      r == Respond(srv, msg, mode)
  IN  [msg |-> msg, Err |-> r.Err, Body |-> r.Body, srv |-> r.srv]

\* call.Store(dests...): the body is stored into the destinations in order;
\* types[i] is the type of destination i and zero[i] the value it holds
\* before.  A body of another length stores nothing; a value of another
\* type stops the store there.
Store(body, types, zero) ==
  IF Len(body) # Len(types) THEN [err |-> ErrLength, vals |-> zero]
  ELSE LET bad == {i \in 1..Len(body) : body[i].t # types[i]}
           first == CHOOSE i \in bad : \A j \in bad : i <= j
       IN  IF bad = {} THEN [err |-> Nil, vals |-> body]
           ELSE [err |-> ErrType,
                 vals |-> [i \in 1..Len(body) |-> IF i < first THEN body[i] ELSE zero[i]]]

\* ------------------------------------------------------- the operations
\* What an operation returns, (value, error); the value is in the field of
\* its type and the other fields are left at their zero values.
Ret(id, ok, caps, info, err) == [id |-> id, ok |-> ok, caps |-> caps, info |-> info, err |-> err]
RetID(id, err) == Ret(id, FALSE, <<>>, NoInformation, err)
RetBool(ok, err) == Ret(U32Zero, ok, <<>>, NoInformation, err)
RetCaps(caps, err) == Ret(U32Zero, FALSE, caps, NoInformation, err)
RetInfo(info, err) == Ret(U32Zero, FALSE, <<>>, info, err)

\* One invocation: the remote calls it issued, in order, the reply to the
\* last of them, the double afterwards, and what it returned.
Out(issued, call, ret) ==
  [issued |-> issued, reply |-> [Err |-> call.Err, Body |-> call.Body],
   srv |-> call.srv, ret |-> ret]

\* An invocation of a method of the notifier: the receiver afterwards too.
Method(self, out) ==
  [self |-> self, issued |-> out.issued, reply |-> out.reply, srv |-> out.srv,
   ret |-> out.ret]

\* a mutation: app_icon and summary change places
NotifyArgsSwapped(n) ==
  <<SVal(n.AppName), UVal(n.ReplacesID), SVal(n.Summary), SVal(n.AppIcon),
    SVal(n.Body), ASVal(n.Actions), DictVal(n.Hints), IVal(n.ExpireTimeout)>>

\* a mutation: replaces_id is sent as 0 whatever the notification says
NotifyArgsNoReplace(n) ==
  <<SVal(n.AppName), UVal(U32Zero), SVal(n.AppIcon), SVal(n.Summary),
    SVal(n.Body), ASVal(n.Actions), DictVal(n.Hints), IVal(n.ExpireTimeout)>>

\* the arguments of the Notify call
NotifyArgs(n) ==
  <<SVal(n.AppName), UVal(n.ReplacesID), SVal(n.AppIcon), SVal(n.Summary),
    SVal(n.Body), ASVal(n.Actions), DictVal(n.Hints), IVal(n.ExpireTimeout)>>

\* a mutation: the id of the notification is returned, not the reply's
SendNotificationOwnID(conn, n, srv, mode) ==
  LET obj == ConnObject(conn, dbusNotificationsInterface, objectPath)
      call == ObjCall(obj, notify, 0, NotifyArgs(n), srv, mode)
      st == Store(call.Body, <<"u">>, <<UVal(U32Zero)>>)
  IN  IF call.Err # Nil THEN Out(<<call.msg>>, call, RetID(U32Zero, call.Err))
      ELSE IF st.err # Nil THEN Out(<<call.msg>>, call, RetID(U32Zero, st.err))
      ELSE Out(<<call.msg>>, call, RetID(n.ReplacesID, Nil))

\* a mutation: a fault is returned together with the id asked to replace
SendNotificationIDOnFault(conn, n, srv, mode) ==
  LET obj == ConnObject(conn, dbusNotificationsInterface, objectPath)
      call == ObjCall(obj, notify, 0, NotifyArgs(n), srv, mode)
      st == Store(call.Body, <<"u">>, <<UVal(U32Zero)>>)
      ret == st.vals[1].u
  IN  IF call.Err # Nil THEN Out(<<call.msg>>, call, RetID(n.ReplacesID, call.Err))
      ELSE IF st.err # Nil THEN Out(<<call.msg>>, call, RetID(n.ReplacesID, st.err))
      ELSE Out(<<call.msg>>, call, RetID(ret, Nil))

\* func SendNotification(conn, n)
SendNotification(conn, n, srv, mode) ==
  LET obj == ConnObject(conn, dbusNotificationsInterface, objectPath)
      call == ObjCall(obj, notify, 0, NotifyArgs(n), srv, mode)
      st == Store(call.Body, <<"u">>, <<UVal(U32Zero)>>)
      ret == st.vals[1].u
  IN  IF call.Err # Nil THEN Out(<<call.msg>>, call, RetID(U32Zero, call.Err))
      ELSE IF st.err # Nil THEN Out(<<call.msg>>, call, RetID(ret, st.err))
      ELSE Out(<<call.msg>>, call, RetID(ret, Nil))

\* a mutation: the notifier remembers the id it got last and returns it
\* when a call fails
notifierSendNotificationCaching(self, n, srv, mode) ==
  LET out == SendNotification(self.conn, n, srv, mode)
      cached == IF "lastID" \in DOMAIN self THEN self.lastID ELSE U32Zero
  IN  Method([conn |-> self.conn, lastID |-> IF out.ret.err = Nil THEN out.ret.id ELSE cached],
             [out EXCEPT !.ret = IF out.ret.err = Nil THEN out.ret
                                 ELSE RetID(cached, out.ret.err)])

\* func (self *notifier) SendNotification(n)
notifierSendNotification(self, n, srv, mode) ==
  Method(self, SendNotification(self.conn, n, srv, mode))

\* a sequence without the repetitions of its elements
RECURSIVE Dedup(_)
Dedup(q) ==
  IF q = <<>> THEN <<>>
  ELSE LET front == Dedup(SubSeq(q, 1, Len(q) - 1))
           x == q[Len(q)]
       IN  IF \E i \in 1..Len(front) : front[i] = x THEN front ELSE front \o <<x>>

\* a mutation: the capabilities are returned without repetitions
GetCapabilitiesDedup(self, srv, mode) ==
  LET obj == ConnObject(self.conn, dbusNotificationsInterface, objectPath)
      call == ObjCall(obj, getCapabilities, 0, <<>>, srv, mode)
      st == Store(call.Body, <<"as">>, <<ASVal(<<>>)>>)
      ret == Dedup(st.vals[1].as)
  IN  IF call.Err # Nil THEN Method(self, Out(<<call.msg>>, call, RetCaps(<<>>, call.Err)))
      ELSE IF st.err # Nil THEN Method(self, Out(<<call.msg>>, call, RetCaps(ret, st.err)))
      ELSE Method(self, Out(<<call.msg>>, call, RetCaps(ret, Nil)))

\* func (self *notifier) GetCapabilities()
GetCapabilities(self, srv, mode) ==
  LET obj == ConnObject(self.conn, dbusNotificationsInterface, objectPath)
      call == ObjCall(obj, getCapabilities, 0, <<>>, srv, mode)
      st == Store(call.Body, <<"as">>, <<ASVal(<<>>)>>)
      ret == st.vals[1].as
  IN  IF call.Err # Nil THEN Method(self, Out(<<call.msg>>, call, RetCaps(<<>>, call.Err)))
      ELSE IF st.err # Nil THEN Method(self, Out(<<call.msg>>, call, RetCaps(ret, st.err)))
      ELSE Method(self, Out(<<call.msg>>, call, RetCaps(ret, Nil)))

\* a mutation: a fault is swallowed
CloseNotificationSwallow(self, id, srv, mode) ==
  LET obj == ConnObject(self.conn, dbusNotificationsInterface, objectPath)
      call == ObjCall(obj, closeNotification, 0, <<UVal(Uint32(id))>>, srv, mode)
  IN  IF call.Err # Nil THEN Method(self, Out(<<call.msg>>, call, RetBool(FALSE, Nil)))
      ELSE Method(self, Out(<<call.msg>>, call, RetBool(TRUE, Nil)))

\* a mutation: a call that failed is made once more
CloseNotificationRetry(self, id, srv, mode) ==
  LET obj == ConnObject(self.conn, dbusNotificationsInterface, objectPath)
      call == ObjCall(obj, closeNotification, 0, <<UVal(Uint32(id))>>, srv, mode)
      again == ObjCall(obj, closeNotification, 0, <<UVal(Uint32(id))>>, call.srv, mode)
  IN  IF call.Err # Nil
      THEN IF again.Err # Nil
           THEN Method(self, Out(<<call.msg, again.msg>>, again, RetBool(FALSE, again.Err)))
           ELSE Method(self, Out(<<call.msg, again.msg>>, again, RetBool(TRUE, Nil)))
      ELSE Method(self, Out(<<call.msg>>, call, RetBool(TRUE, Nil)))

\* func (self *notifier) CloseNotification(id)
CloseNotification(self, id, srv, mode) ==
  LET obj == ConnObject(self.conn, dbusNotificationsInterface, objectPath)
      call == ObjCall(obj, closeNotification, 0, <<UVal(Uint32(id))>>, srv, mode)
  IN  IF call.Err # Nil THEN Method(self, Out(<<call.msg>>, call, RetBool(FALSE, call.Err)))
      ELSE Method(self, Out(<<call.msg>>, call, RetBool(TRUE, Nil)))

\* a mutation: vendor and version are stored into each other's field
GetServerInformationSwapped(self, srv, mode) ==
  LET obj == ConnObject(self.conn, dbusNotificationsInterface, objectPath)
      call == ObjCall(obj, getServerInformation, 0, <<>>, srv, mode)
      st == Store(call.Body, <<"s", "s", "s", "s">>, [i \in 1..4 |-> SVal("")])
      ret == ServerInformation(st.vals[1].s, st.vals[3].s, st.vals[2].s, st.vals[4].s)
  IN  IF call.Err # Nil THEN Method(self, Out(<<call.msg>>, call, RetInfo(NoInformation, call.Err)))
      ELSE IF st.err # Nil THEN Method(self, Out(<<call.msg>>, call, RetInfo(ret, st.err)))
      ELSE Method(self, Out(<<call.msg>>, call, RetInfo(ret, Nil)))

\* func (self *notifier) GetServerInformation(); conn.Object never returns
\* nil, so the obj == nil return is not taken
GetServerInformation(self, srv, mode) ==
  LET obj == ConnObject(self.conn, dbusNotificationsInterface, objectPath)
      call == ObjCall(obj, getServerInformation, 0, <<>>, srv, mode)
      st == Store(call.Body, <<"s", "s", "s", "s">>, [i \in 1..4 |-> SVal("")])
      ret == ServerInformation(st.vals[1].s, st.vals[2].s, st.vals[3].s, st.vals[4].s)
  IN  IF call.Err # Nil THEN Method(self, Out(<<call.msg>>, call, RetInfo(NoInformation, call.Err)))
      ELSE IF st.err # Nil THEN Method(self, Out(<<call.msg>>, call, RetInfo(ret, st.err)))
      ELSE Method(self, Out(<<call.msg>>, call, RetInfo(ret, Nil)))

\* ------------------------------------------------------------ the inputs
Urgency == {[key |-> "urgency", sig |-> "y", val |-> 1]}
U32Max == U32(LimbMax, LimbMax)

\* the ReplacesID values tried: 0, the ids the double allocates, 2^32 - 1
ReplaceIDs == {U32Zero, U32Max} \cup {U32Of(k) : k \in 1..MaxIds}

\* the notifications tried: all fields empty, and all fields set and
\* pairwise different
Notifications ==
  {Notification("", r, "", "", "", <<>>, NoHints, 0) : r \in ReplaceIDs}
  \cup {Notification("Test GO App", r, "mail-unread", "Test", "This is a test",
                      <<"default", "Open">>, Urgency, -1) : r \in ReplaceIDs}

\* the ids tried with CloseNotification: small ones of both signs, the
\* ends of the uint32 range, values past it, the ends of the int64 range
CloseIDs ==
  {IntOf(k) : k \in -1..MaxIds} \cup
  {GoInt(FALSE, <<LimbMax, LimbMax, 0, 0>>), GoInt(FALSE, <<0, 0, 1, 0>>),
   GoInt(FALSE, <<1, 0, 7, 0>>), GoInt(TRUE, <<LimbMax, LimbMax, 0, 0>>),
   GoInt(TRUE, <<0, 0, 0, 32768>>), GoInt(FALSE, <<LimbMax, LimbMax, LimbMax, 32767>>)}

\* the ways the double answers each method
Faults == {Fault(e) : e \in CallFaults}
NotifyModes ==
  {Honest} \cup Faults \cup
  {Scripted(<<UVal(u)>>) : u \in {U32Zero, U32Max}} \cup
  {Scripted(<<>>), Scripted(<<SVal("7")>>), Scripted(<<UVal(U32Of(1)), UVal(U32Of(2))>>)}
CloseModes == {Honest} \cup Faults
CapsModes ==
  {Honest} \cup Faults \cup
  {Scripted(<<ASVal(c)>>) : c \in {<<>>, <<"body", "actions", "body">>}} \cup
  {Scripted(<<>>), Scripted(<<SVal("body")>>), Scripted(<<ASVal(<<"body">>), ASVal(<<"actions">>)>>)}
InfoFields == <<SVal("gnome-shell"), SVal("GNOME"), SVal("3.16"), SVal("1.2")>>
InfoModes ==
  {Honest} \cup Faults \cup
  {Scripted(SubSeq(InfoFields, 1, k)) : k \in 0..3} \cup
  {Scripted([InfoFields EXCEPT ![k] = UVal(U32Of(k))]) : k \in 1..4} \cup
  {Scripted(InfoFields \o <<SVal("extra")>>)}

\* ---------------------------------------------------------------- state
\* self: the notifier; srv: the remote double; last: the latest invocation
\* (operation, arguments, mode of the double, calls issued, reply, result);
\* probe: an earlier invocation the caller has kept a record of
VARIABLES self, srv, last, probe
vars == <<self, srv, last, probe>>

Conn == "session bus"
NoNotification == Notification("", U32Zero, "", "", "", <<>>, NoHints, 0)
Invocation(op, n, id, mode, out) ==
  [op |-> op, n |-> n, id |-> id, mode |-> mode, issued |-> out.issued,
   reply |-> out.reply, ret |-> out.ret]
NoInvocation ==
  [op |-> "New", n |-> NoNotification, id |-> IntOf(0), mode |-> Honest, issued |-> <<>>,
   reply |-> [Err |-> Nil, Body |-> <<>>],
   ret |-> Ret(U32Zero, FALSE, <<>>, NoInformation, Nil)]

Init ==
  /\ self = New(Conn)
  /\ srv = [next |-> 1, live |-> {}, issuedIds |-> {}]
  /\ last = NoInvocation
  /\ probe = NoInvocation

\* the invocations the caller keeps a record of: the first sends of a
\* notification (ReplacesID 0), the closes of id 1 and of id -1, and the
\* queries answered to the letter or with an empty reply
Watched(inv) ==
  \/ inv.op = "SendNotification" /\ inv.n.ReplacesID = U32Zero
       /\ inv.mode \in {Honest, Fault(ErrRemote), Scripted(<<UVal(U32Max)>>)}
  \/ inv.op = "CloseNotification" /\ inv.id \in {IntOf(1), IntOf(-1)}
  \/ inv.op \in {"GetCapabilities", "GetServerInformation"}
       /\ inv.mode \in {Honest, Scripted(<<>>)}

\* the caller may keep a record of the invocation before this one
Keep == probe' \in {probe} \cup (IF Watched(last) THEN {last} ELSE {})

Send ==
  \E n \in Notifications, mode \in NotifyModes :
    LET out == notifierSendNotification(self, n, srv, mode) IN
    /\ mode = Honest => \A i \in 1..Len(out.issued) : CanHonest(srv, out.issued[i])
    /\ last' = Invocation("SendNotification", n, IntOf(0), mode, out)
    /\ srv' = out.srv
    /\ Keep
    /\ self' = out.self

Close ==
  \E id \in CloseIDs, mode \in CloseModes :
    LET out == CloseNotification(self, id, srv, mode) IN
    /\ last' = Invocation("CloseNotification", NoNotification, id, mode, out)
    /\ srv' = out.srv
    /\ Keep
    /\ self' = out.self

Capabilities ==
  \E mode \in CapsModes :
    LET out == GetCapabilities(self, srv, mode) IN
    /\ last' = Invocation("GetCapabilities", NoNotification, IntOf(0), mode, out)
    /\ srv' = out.srv
    /\ Keep
    /\ self' = out.self

Information ==
  \E mode \in InfoModes :
    LET out == GetServerInformation(self, srv, mode) IN
    /\ last' = Invocation("GetServerInformation", NoNotification, IntOf(0), mode, out)
    /\ srv' = out.srv
    /\ Keep
    /\ self' = out.self

Next == Send \/ Close \/ Capabilities \/ Information

Spec == Init /\ [][Next]_vars

\* ------------------------------------------------------------ properties
IsSend == last.op = "SendNotification"
IsClose == last.op = "CloseNotification"
IsCaps == last.op = "GetCapabilities"
IsInfo == last.op = "GetServerInformation"
FullNotification(r) ==
  Notification("Test GO App", r, "mail-unread", "Test", "This is a test",
               <<"default", "Open">>, Urgency, -1)

\* C1: SendNotification issues the Notify call with exactly eight arguments,
\* AppName, ReplacesID, AppIcon, Summary, Body, Actions, Hints and
\* ExpireTimeout in this order, each of its wire type and equal to the field
\* of the notification, empty or not.
C1_NotifyArgsPositional ==
  IsSend =>
    /\ Len(last.issued) >= 1
    /\ LET m == last.issued[1]
           a == m.args
       IN  /\ m.method = "org.freedesktop.Notifications.Notify"
           /\ Len(a) = 8
           /\ a[1].t = "s" /\ a[1].s = last.n.AppName
           /\ a[2].t = "u" /\ a[2].u = last.n.ReplacesID
           /\ a[3].t = "s" /\ a[3].s = last.n.AppIcon
           /\ a[4].t = "s" /\ a[4].s = last.n.Summary
           /\ a[5].t = "s" /\ a[5].s = last.n.Body
           /\ a[6].t = "as" /\ a[6].as = last.n.Actions
           /\ a[7].t = "a{sv}" /\ a[7].h = last.n.Hints
           /\ a[8].t = "i" /\ a[8].i = last.n.ExpireTimeout
C1_Witness ==
  /\ IsSend
  /\ last.n = FullNotification(U32Max)
  /\ last.issued[1].args[3].s = "mail-unread"
  /\ last.issued[1].args[4].s = "Test"

\* C2: when the Notify call replies without fault with a single uint32 v,
\* SendNotification returns (v, nil); with a double that follows the
\* notification specification the result is ReplacesID when that is not 0
\* and a fresh id greater than 0 when it is.
C2_SendReturnsReplyID ==
  IsSend =>
    /\ (last.reply.Err = Nil /\ Len(last.reply.Body) = 1 /\ last.reply.Body[1].t = "u")
         => (last.ret.id = last.reply.Body[1].u /\ last.ret.err = Nil)
    /\ (last.mode = Honest /\ last.n.ReplacesID # U32Zero)
         => (last.ret.id = last.n.ReplacesID /\ last.ret.err = Nil)
    /\ (last.mode = Honest /\ last.n.ReplacesID = U32Zero)
         => (last.ret.id # U32Zero /\ last.ret.id \in srv.issuedIds /\ last.ret.err = Nil)
C2_Witness ==
  /\ IsSend /\ last.mode = Honest
  /\ last.n.ReplacesID = U32Zero
  /\ last.ret.id = U32Of(MaxIds)

\* C3: with a double that follows the notification specification, a send
\* with ReplacesID 0 and a later send of the same content with ReplacesID
\* set to the id the first returned return the same id, whatever operations
\* came between the two.
C3_ReplaceReturnsSameID ==
  (/\ probe.op = "SendNotification" /\ probe.mode = Honest
   /\ probe.n.ReplacesID = U32Zero /\ probe.ret.err = Nil
   /\ IsSend /\ last.mode = Honest
   /\ last.n = [probe.n EXCEPT !.ReplacesID = probe.ret.id])
  => (last.ret.id = probe.ret.id /\ last.ret.err = Nil)
C3_Witness ==
  /\ probe.op = "SendNotification" /\ probe.mode = Honest
  /\ probe.n = FullNotification(U32Zero) /\ probe.ret.id = U32Of(1)
  /\ IsSend /\ last.mode = Honest
  /\ last.n = FullNotification(U32Of(1)) /\ last.ret.id = U32Of(1)
  /\ srv.next > 2

\* C4: SendNotification returns an error exactly when the call faulted or
\* the reply is not a single uint32; the id returned with an error is 0 and
\* the error is the fault of the call or, for a reply that does not decode,
\* the fault of the decoding.
C4_SendErrorZeroID ==
  IsSend =>
    LET decodes == Len(last.reply.Body) = 1 /\ last.reply.Body[1].t = "u"
    IN  /\ last.ret.err # Nil <=> (last.reply.Err # Nil \/ ~decodes)
        /\ last.ret.err # Nil => last.ret.id = U32Zero
        /\ last.reply.Err # Nil => last.ret.err = last.reply.Err
        /\ (last.reply.Err = Nil /\ ~decodes) => last.ret.err \notin CallFaults \cup {Nil}
C4_Witness ==
  /\ IsSend /\ last.n.ReplacesID = U32Of(1)
  /\ last.reply.Err = Nil /\ last.reply.Body = <<>>
  /\ last.ret.err # Nil /\ last.ret.id = U32Zero

\* C5: CloseNotification returns (true, nil) exactly when the call completed
\* without fault, and (false, the fault) otherwise; a close of an id the
\* server does not have, answered without fault, is reported as (true, nil).
C5_CloseResult ==
  IsClose =>
    /\ last.reply.Err = Nil => (last.ret.ok = TRUE /\ last.ret.err = Nil)
    /\ last.reply.Err # Nil => (last.ret.ok = FALSE /\ last.ret.err = last.reply.Err)
C5_Witness ==
  /\ IsClose /\ last.mode = Honest
  /\ last.issued[1].args[1].u \notin srv.issuedIds
  /\ last.ret.ok = TRUE /\ last.ret.err = Nil

\* C6: when the GetCapabilities call replies without fault with a sequence
\* of strings, GetCapabilities returns that sequence and nil: the same
\* length, the same elements, the same order.
C6_CapabilitiesAsReceived ==
  (IsCaps /\ last.reply.Err = Nil /\ Len(last.reply.Body) = 1 /\ last.reply.Body[1].t = "as")
  => /\ last.ret.err = Nil
     /\ Len(last.ret.caps) = Len(last.reply.Body[1].as)
     /\ \A i \in 1..Len(last.ret.caps) : last.ret.caps[i] = last.reply.Body[1].as[i]
C6_Witness ==
  /\ IsCaps
  /\ last.reply.Body = <<ASVal(<<"body", "actions", "body">>)>>
  /\ Len(last.ret.caps) = 3

\* C7: GetServerInformation decodes the reply by position into Name, Vendor,
\* Version, SpecVersion; when the decoding faults it returns an error and a
\* record in which every field from the first missing or non-string value
\* on is empty and every other field is empty or the value at its position;
\* when the call faults it returns the empty record and the fault.
InfoField(k) ==
  CASE k = 1 -> last.ret.info.Name
    [] k = 2 -> last.ret.info.Vendor
    [] k = 3 -> last.ret.info.Version
    [] OTHER -> last.ret.info.SpecVersion
C7_InformationDecode ==
  IsInfo =>
    LET b == last.reply.Body
        good(i) == i <= Len(b) /\ b[i].t = "s"
        decodes == Len(b) = 4 /\ \A i \in 1..4 : good(i)
    IN  /\ last.reply.Err # Nil => (last.ret.info = NoInformation /\ last.ret.err = last.reply.Err)
        /\ (last.reply.Err = Nil /\ decodes)
             => (last.ret.err = Nil /\ \A i \in 1..4 : InfoField(i) = b[i].s)
        /\ (last.reply.Err = Nil /\ ~decodes)
             => /\ last.ret.err # Nil
                /\ \A i \in 1..4 : ~good(i) => \A j \in i..4 : InfoField(j) = ""
                /\ \A i \in 1..4 : InfoField(i) = "" \/ (good(i) /\ InfoField(i) = b[i].s)
C7_Witness ==
  /\ IsInfo /\ last.reply.Err = Nil
  /\ Len(last.reply.Body) = 4 /\ last.reply.Body[3].t = "u"
  /\ last.ret.err # Nil
  /\ last.ret.info = ServerInformation("gnome-shell", "GNOME", "", "")

\* C8: every invocation of an operation issues exactly one remote call, to
\* the method of its name and over the connection of the notifier, also
\* when the call or the decoding of its reply faults.
MethodOf(op) ==
  CASE op = "SendNotification" -> "org.freedesktop.Notifications.Notify"
    [] op = "CloseNotification" -> "org.freedesktop.Notifications.CloseNotification"
    [] op = "GetCapabilities" -> "org.freedesktop.Notifications.GetCapabilities"
    [] OTHER -> "org.freedesktop.Notifications.GetServerInformation"
C8_OneCallPerInvocation ==
  last.op # "New" =>
    /\ Len(last.issued) = 1
    /\ last.issued[1].method = MethodOf(last.op)
    /\ last.issued[1].conn = self.conn
C8_Witness ==
  /\ IsClose /\ last.reply.Err = ErrTransport
  /\ Len(last.issued) = 1 /\ last.ret.err = ErrTransport
  /\ probe.op = "GetServerInformation" /\ probe.ret.err = ErrLength

\* C9: the notifier holds the connection given to New and nothing else, in
\* every state, and the result of an invocation is decided by its operation,
\* its arguments and the reply to its call: an invocation that agrees in
\* these with an earlier one returns what the earlier one returned.
C9_NoRetainedState ==
  /\ self = [conn |-> Conn]
  /\ (probe.op = last.op /\ probe.n = last.n /\ probe.id = last.id /\ probe.reply = last.reply)
       => probe.ret = last.ret
C9_Witness ==
  /\ probe.op = "SendNotification" /\ IsSend
  /\ probe.n = last.n /\ probe.reply = last.reply
  /\ probe.reply.Err = ErrRemote
  /\ probe.ret = last.ret
  /\ srv.next > 1 /\ srv.live = {}

\* C10: CloseNotification sends id narrowed to 32 bits, that is id mod 2^32:
\* id itself when 0 <= id < 2^32, and another value when id is negative or
\* 2^32 or more (-1 goes as 2^32 - 1, 7 * 2^32 + 1 goes as 1); the narrowing
\* raises no error.
InUint32Range(x) == ~x.neg /\ x.mag[3] = 0 /\ x.mag[4] = 0
\* u + x is a multiple of 2^32, for a magnitude x
SumIsMultiple(u, x) ==
  LET lo == u.lo + x[1]
      hi == u.hi + x[2] + (lo \div Limb)
  IN  lo % Limb = 0 /\ hi % Limb = 0
C10_CloseNarrowsID ==
  IsClose =>
    LET sent == last.issued[1].args[1].u
    IN  /\ last.issued[1].args[1].t = "u"
        /\ sent.hi \in 0..LimbMax /\ sent.lo \in 0..LimbMax
        /\ ~last.id.neg => (sent.lo = last.id.mag[1] /\ sent.hi = last.id.mag[2])
        /\ last.id.neg => SumIsMultiple(sent, last.id.mag)
        /\ InUint32Range(last.id) <=> IntOfU32(sent) = last.id
        /\ last.id = IntOf(-1) => sent = U32(LimbMax, LimbMax)
        /\ last.id = GoInt(FALSE, <<1, 0, 7, 0>>) => sent = U32(0, 1)
        /\ last.ret.err = last.reply.Err
C10_Witness ==
  /\ IsClose /\ last.mode = Honest
  /\ last.id = GoInt(FALSE, <<1, 0, 7, 0>>)
  /\ last.issued[1].args[1].u = U32Of(1)
  /\ U32Of(1) \in srv.issuedIds /\ U32Of(1) \notin srv.live
  /\ last.ret.ok = TRUE

====
